---- MODULE Spec2Model ----
(***************************************************************************)
(* Trail/ribbon effects of the 3D scene: OptimizedRibbons (pooled          *)
(* buffers, subsampled rebuild), ProperRibbons and SpeedTrails.            *)
(*                                                                         *)
(* Units.  Lengths are in thousandths of a world unit, times in            *)
(* milliseconds, so 0.03 units is 30 and one world unit per second is one  *)
(* length unit per millisecond.  A velocity is kept as the pair            *)
(* [v, per]: the displacement v divided by per milliseconds; per = 0 is    *)
(* the displacement left undivided (the code skips the division when       *)
(* delta is not positive).  Distances are compared squared.  An alpha is   *)
(* kept as a numerator over a denominator that is common to one rebuild.   *)
(* Vertex coordinates are not kept: a geometry holds how many vertices     *)
(* were written, the index list and the per-vertex alpha.                  *)
(***************************************************************************)
EXTENDS Integers, Sequences, FiniteSets, TLC

VARIABLES
    component,        \* which effect this instance is
    now,              \* performance.now() / Date.now(), ms
    spherePosition,   \* sphereRef.current.position / the spherePosition prop
    enabled,          \* prop enabled
    mode,             \* prop mode (OptimizedRibbons)
    trailHistory,     \* trailHistory.current, newest first
    lastPosition,     \* lastPosition.current
    lastVelocity,     \* lastVelocity.current / currentVelocity.current
    frameCounter,     \* frameCounter.current (OptimizedRibbons)
    isInitialized,    \* isInitialized.current (OptimizedRibbons)
    ribbonGeometries, \* per ribbon: the geometry drawn by its mesh
    lastFrame,        \* what the last handler run did (observation only)
    spent,            \* environment budget used so far
    \* App and AmbientParticles
    swarmMode,                \* App state swarmMode
    isSwarmButtonDisabled,    \* App state isSwarmButtonDisabled
    showControls,             \* App state showControls
    ribbonMode,               \* App state ribbonMode
    rendered,                 \* the state values of the last render, which the
                              \* callbacks and props of that render closed over
    previousSwarmMode,        \* AmbientParticles previousSwarmMode.current
    hasCalledReturnComplete,  \* AmbientParticles hasCalledReturnComplete.current
    sinceReturnStart,         \* time - returnTransitionStart.current, s, capped
    returnCompleteCalls,      \* onReturnComplete calls since 'returning' was entered,
                              \* and the swarmMode of the last call (observation only)
    lastEvent,                \* the last handler of App that ran and the swarmMode
                              \* it found (observation only)
    \* AuthScreen
    code,                     \* state code, a sequence of characters
    status,                   \* state status: 'idle', 'success', 'error'
    pendingAuth,              \* timeouts set by handleSubmit that have not fired
    lastAuth,                 \* whether onAuth has fired, and the status and whether the
                              \* code was ACCESS_CODE when it last did (observation only)
    \* PerformanceMonitor and App's performance level
    frameCount,               \* ref frameCount, modulo the frames of one measurement
    fpsArray,                 \* ref fpsArray, the rolling window of measurements
    fps,                      \* PerformanceMonitor's state fps
    monitorLevel,             \* PerformanceMonitor's state performanceLevel
    performanceLevel,         \* App's state performanceLevel
    \* PlaneInstancerWithColor's grass trail recorder
    shaderReady,              \* shaderRef.current is set (onBeforeCompile has run)
    spherePosRef,             \* ref spherePosRef
    trailPositions,           \* ref trailPositions, 60 numbers (index 0 is element 1)
    trailTimes,               \* ref trailTimes, 20 numbers (index 0 is element 1)
    trailIndex,               \* ref trailIndex
    lastRecordedPosition,     \* ref lastRecordedPosition
    trailCount,               \* shader.uniforms.trailCount.value
    elapsedTime,              \* clock.getElapsedTime(), in ms
    grassPhase,               \* what runs next in a frame: "move" or "frame"
    idleSpent,                \* frames without a recording that were explored
    recorded,                 \* every recording made, oldest first (observation only)
    lastGrassFrame,           \* what the last frame did (observation only)
    \* MovingSphere's base mesh search
    sceneObjects,             \* the objects of the scene, in traversal order
    sphereInitialized,        \* ref isInitializedRef
    baseMeshRef,              \* ref baseMeshRef: 0 for null, else the object's place in
                              \* sceneObjects
    cachedBy                  \* which search set baseMeshRef (observation only)

ribbonVars == <<component, now, spherePosition, enabled, mode, trailHistory,
                lastPosition, lastVelocity, frameCounter, isInitialized,
                ribbonGeometries, lastFrame, spent>>

appVars == <<swarmMode, isSwarmButtonDisabled, showControls, ribbonMode,
             rendered, previousSwarmMode,
             hasCalledReturnComplete, sinceReturnStart, returnCompleteCalls,
             lastEvent>>

authVars == <<code, status, pendingAuth, lastAuth>>

perfVars == <<frameCount, fpsArray, fps, monitorLevel, performanceLevel>>

grassVars == <<shaderReady, spherePosRef, trailPositions, trailTimes, trailIndex,
               lastRecordedPosition, trailCount, elapsedTime, grassPhase, idleSpent,
               recorded, lastGrassFrame>>

meshVars == <<sceneObjects, sphereInitialized, baseMeshRef, cachedBy>>

vars == <<ribbonVars, appVars, authVars, perfVars, grassVars, meshVars>>

\* what the handlers of one component leave alone
notRibbonVars == <<appVars, authVars, perfVars, grassVars, meshVars>>
notAppVars == <<ribbonVars, authVars, perfVars, grassVars, meshVars>>
notAuthVars == <<ribbonVars, appVars, perfVars, grassVars, meshVars>>
notPerfVars == <<ribbonVars, appVars, authVars, grassVars, meshVars>>
notGrassVars == <<ribbonVars, appVars, authVars, perfVars, meshVars>>
notMeshVars == <<ribbonVars, appVars, authVars, perfVars, grassVars>>

----------------------------------------------------------------------------
(* Bounds of the exploration *)

\* total budget of a run: a regular frame costs 1, any other input IrregularCost
MaxBudget == 30
\* cost of an input other than the regular frame (regular move, regular dt)
IrregularCost == 12

----------------------------------------------------------------------------
(* Program constants *)

OR_RIBBON_COUNT == 4
OR_MAX_TRAIL_POINTS == 20
OR_TRAIL_LIFETIME == 3500
OR_MOVEMENT_THRESHOLD == 30
OR_UPDATE_FREQUENCY == 3

PR_RIBBON_COUNT == 6
PR_MAX_TRAIL_LENGTH == 15
PR_MOVEMENT_THRESHOLD == 20
PR_TRAIL_LIFETIME == 3000

ST_MAX_TRAIL_POINTS == 25
ST_RIBBON_COUNT == 8
ST_TRAIL_LIFETIME == 2500
\* the literal 0.001 of SpeedTrails' movement test
ST_MOVEMENT_EPSILON == 1

Components == {"OptimizedRibbons", "ProperRibbons", "SpeedTrails"}
Modes == {"off", "basic", "speed", "both"}

----------------------------------------------------------------------------
(* Vectors *)

ZeroVec == <<0, 0, 0>>
UpVec == <<0, 1, 0>>
VecAdd(a, b) == <<a[1] + b[1], a[2] + b[2], a[3] + b[3]>>
VecSub(a, b) == <<a[1] - b[1], a[2] - b[2], a[3] - b[3]>>
VecNeg(a) == <<-a[1], -a[2], -a[3]>>
LengthSq(a) == a[1] * a[1] + a[2] * a[2] + a[3] * a[3]
DistanceToSq(a, b) == LengthSq(VecSub(a, b))
CrossVectors(a, b) ==
    <<a[2] * b[3] - a[3] * b[2], a[3] * b[1] - a[1] * b[3], a[1] * b[2] - a[2] * b[1]>>

Max(a, b) == IF a >= b THEN a ELSE b

ZeroVelocity == [v |-> ZeroVec, per |-> 0]

\* velocity after subVectors and the guarded divideScalar(delta)
DividedVelocity(d, delta) == [v |-> d, per |-> IF delta > 0 THEN delta ELSE 0]

\* velocity.length() > 0.001
VelocityLengthAbove(vel) ==
    IF vel.per > 0
    THEN LengthSq(vel.v) > (vel.per * vel.per) \div 1000000
    ELSE LengthSq(vel.v) > 1

\* velocity.length() < 0.001
VelocityLengthBelow(vel) ==
    IF vel.per > 0
    THEN LengthSq(vel.v) <= (vel.per * vel.per - 1) \div 1000000
    ELSE LengthSq(vel.v) < 1

----------------------------------------------------------------------------
(* Trail points and geometries *)

TrailPoint(p, vel, t) == [position |-> p, velocity |-> vel, timestamp |-> t]

\* mutant of FilterByAge: the filtered array is dropped, the trail kept whole
FilterByAgeKeepsAll(trail, currentTime, lifetime) == trail

\* trail.filter(point => currentTime - point.timestamp < lifetime)
RECURSIVE FilterByAge(_, _, _)
FilterByAge(trail, currentTime, lifetime) ==
    IF trail = <<>> THEN <<>>
    ELSE LET rest == FilterByAge(Tail(trail), currentTime, lifetime)
         IN  IF currentTime - Head(trail).timestamp < lifetime
             THEN <<Head(trail)>> \o rest
             ELSE rest

\* mutant of UnshiftLimited: the cut removes from the front (the newest point)
UnshiftLimitedFromFront(trail, point, max) ==
    LET longer == <<point>> \o trail
    IN  IF Len(longer) > max THEN SubSeq(longer, 2, max + 1) ELSE longer

\* mutant of UnshiftLimited: the point is pushed at the end instead of unshifted
PushLimited(trail, point, max) ==
    LET longer == trail \o <<point>>
    IN  IF Len(longer) > max THEN SubSeq(longer, 1, max) ELSE longer

\* mutant of UnshiftLimited: the length limit is missing
UnshiftUnlimited(trail, point, max) == <<point>> \o trail

\* unshift(point), then cut to max points
UnshiftLimited(trail, point, max) ==
    LET longer == <<point>> \o trail
    IN  IF Len(longer) > max THEN SubSeq(longer, 1, max) ELSE longer

\* a fresh BufferGeometry: nothing written, nothing drawn
EmptyGeometry == [vertexCount |-> 0, index |-> <<>>, color |-> <<>>,
                  colorDen |-> 1, drawRange |-> 0]

RibbonCount(c) ==
    CASE c = "OptimizedRibbons" -> OR_RIBBON_COUNT
      [] c = "ProperRibbons" -> PR_RIBBON_COUNT
      [] OTHER -> ST_RIBBON_COUNT

MaxTrail(c) ==
    CASE c = "OptimizedRibbons" -> OR_MAX_TRAIL_POINTS
      [] c = "ProperRibbons" -> PR_MAX_TRAIL_LENGTH
      [] OTHER -> ST_MAX_TRAIL_POINTS

TrailLifetime(c) ==
    CASE c = "OptimizedRibbons" -> OR_TRAIL_LIFETIME
      [] c = "ProperRibbons" -> PR_TRAIL_LIFETIME
      [] OTHER -> ST_TRAIL_LIFETIME

----------------------------------------------------------------------------
(* OptimizedRibbons *)

\* mutant of updateTrailHistory: the movement threshold test is missing
updateTrailHistoryAlways(trail, lastPos, lastVel, newPosition, delta, t) ==
    LET vel == DividedVelocity(VecSub(newPosition, lastPos), delta)
    IN  [updated |-> TRUE,
         trailHistory |-> UnshiftLimited(trail, TrailPoint(newPosition, vel, t),
                                         OR_MAX_TRAIL_POINTS),
         lastPosition |-> newPosition,
         lastVelocity |-> vel]

\* updateTrailHistory(newPosition, delta): the recorded state and whether a
\* point was recorded
updateTrailHistory(trail, lastPos, lastVel, newPosition, delta, t) ==
    IF DistanceToSq(newPosition, lastPos) < OR_MOVEMENT_THRESHOLD * OR_MOVEMENT_THRESHOLD
    THEN [updated |-> FALSE, trailHistory |-> trail,
          lastPosition |-> lastPos, lastVelocity |-> lastVel]
    ELSE LET vel == DividedVelocity(VecSub(newPosition, lastPos), delta)
         IN  [updated |-> TRUE,
              trailHistory |-> UnshiftLimited(trail, TrailPoint(newPosition, vel, t),
                                              OR_MAX_TRAIL_POINTS),
              lastPosition |-> newPosition,
              lastVelocity |-> vel]

\* mutant of OR_AgeFadeSkipped: the cutoff is 0 instead of 0.01
OR_AgeFadeSkippedAtZero(age) ==
    Max(0, OR_TRAIL_LIFETIME - age) * 100 <= 0

\* ageFade <= 0.01, with ageFade = max(0, 1 - age / TRAIL_LIFETIME)
OR_AgeFadeSkipped(age) ==
    Max(0, OR_TRAIL_LIFETIME - age) * 100 <= OR_TRAIL_LIFETIME

\* numerator of alpha = ageFade * positionFade * 0.8 for trail index i (from 0)
\* of n points, over OR_AlphaDen(n)
OR_AlphaNum(age, i, n) ==
    Max(0, OR_TRAIL_LIFETIME - age) * Max(n - 1, 10 * (n - 1) - 8 * i) * 8

OR_AlphaDen(n) == OR_TRAIL_LIFETIME * 10 * (n - 1) * 10

\* mutant of OR_EmittedSegments: the loop stops one segment early
OR_EmittedSegmentsShort(trail, currentTime) ==
    SelectSeq([k \in 1 .. (Len(trail) - 2) |-> k - 1],
              LAMBDA i : ~OR_AgeFadeSkipped(currentTime - trail[i + 1].timestamp))

\* the segments the loop emits: the trail indices i (from 0) not skipped
OR_EmittedSegments(trail, currentTime) ==
    SelectSeq([k \in 1 .. (Len(trail) - 1) |-> k - 1],
              LAMBDA i : ~OR_AgeFadeSkipped(currentTime - trail[i + 1].timestamp))

\* the six indices of the segment whose first vertex is baseIndex
SegmentIndices(baseIndex) ==
    <<baseIndex, baseIndex + 1, baseIndex + 2,
      baseIndex + 1, baseIndex + 3, baseIndex + 2>>

RECURSIVE OR_IndexList(_)
OR_IndexList(segments) ==
    IF segments = 0 THEN <<>>
    ELSE OR_IndexList(segments - 1) \o SegmentIndices(4 * (segments - 1))

RECURSIVE OR_ColorList(_, _, _)
OR_ColorList(emitted, trail, currentTime) ==
    IF emitted = <<>> THEN <<>>
    ELSE LET i == Head(emitted)
             a == OR_AlphaNum(currentTime - trail[i + 1].timestamp, i, Len(trail))
         IN  <<a, a, a, a>> \o OR_ColorList(Tail(emitted), trail, currentTime)

\* mutant of updateRibbonGeometry: setDrawRange(0, indexCount) is missing
updateRibbonGeometryKeepsDrawRange(geometry, trail, currentTime) ==
    IF Len(trail) < 2 THEN geometry
    ELSE LET emitted == OR_EmittedSegments(trail, currentTime)
             vertexCount == 4 * Len(emitted)
         IN  IF vertexCount > 0
             THEN [vertexCount |-> vertexCount,
                   index |-> OR_IndexList(Len(emitted)),
                   color |-> OR_ColorList(emitted, trail, currentTime),
                   colorDen |-> OR_AlphaDen(Len(trail)),
                   drawRange |-> geometry.drawRange]
             ELSE [geometry EXCEPT !.drawRange = 0]

\* mutant of updateRibbonGeometry: the early return on a short trail is missing
updateRibbonGeometryUnguarded(geometry, trail, currentTime) ==
    LET emitted == OR_EmittedSegments(trail, currentTime)
        vertexCount == 4 * Len(emitted)
        indexCount == 6 * Len(emitted)
    IN  IF vertexCount > 0
        THEN [vertexCount |-> vertexCount,
              index |-> OR_IndexList(Len(emitted)),
              color |-> OR_ColorList(emitted, trail, currentTime),
              colorDen |-> OR_AlphaDen(Len(trail)),
              drawRange |-> indexCount]
        ELSE [geometry EXCEPT !.drawRange = 0]

\* updateRibbonGeometry(ribbonIndex) on the geometry of one ribbon
updateRibbonGeometry(geometry, trail, currentTime) ==
    IF Len(trail) < 2 THEN geometry
    ELSE LET emitted == OR_EmittedSegments(trail, currentTime)
             vertexCount == 4 * Len(emitted)
             indexCount == 6 * Len(emitted)
         IN  IF vertexCount > 0
             THEN [vertexCount |-> vertexCount,
                   index |-> OR_IndexList(Len(emitted)),
                   color |-> OR_ColorList(emitted, trail, currentTime),
                   colorDen |-> OR_AlphaDen(Len(trail)),
                   drawRange |-> indexCount]
             ELSE [geometry EXCEPT !.drawRange = 0]

\* the disable effect of OptimizedRibbons: setDrawRange(0, 0) on every geometry
OR_ClearDrawRanges(geometries) ==
    [r \in DOMAIN geometries |-> [geometries[r] EXCEPT !.drawRange = 0]]

\* normalize(): the direction of v, kept as the integer vector of that
\* direction with coprime components; three.js divides by (length || 1), so
\* the zero vector stays the zero vector
RECURSIVE Gcd(_, _)
Gcd(a, b) == IF b = 0 THEN a ELSE Gcd(b, a % b)

Abs(a) == IF a < 0 THEN -a ELSE a

Normalize(v) ==
    LET g == Gcd(Gcd(Abs(v[1]), Abs(v[2])), Abs(v[3]))
    IN  IF g = 0 THEN v ELSE <<v[1] \div g, v[2] \div g, v[3] \div g>>

\* calculateSpawnOffset(velocity, ribbonIndex): the direction the corner
\* pattern is rotated to (the static pattern when there is no velocity) and
\* the vectors it passes to normalize()
calculateSpawnOffset(velocity) ==
    IF VelocityLengthAbove(velocity)
    THEN [pattern |-> "rotated", direction |-> Normalize(velocity.v),
          normalized |-> <<velocity.v>>]
    ELSE [pattern |-> "static", direction |-> ZeroVec, normalized |-> <<>>]

\* some vector passed to normalize() has length zero
HasZeroVector(normalized) ==
    \E a \in 1 .. Len(normalized) : normalized[a] = ZeroVec

\* the calculateSpawnOffset calls of one rebuild pass a zero vector to normalize()
OR_NormalizesZero(trail, currentTime) ==
    /\ Len(trail) >= 2
    /\ LET emitted == OR_EmittedSegments(trail, currentTime)
       IN  \E k \in 1 .. Len(emitted) :
              \E j \in {emitted[k] + 1, emitted[k] + 2} :
                 HasZeroVector(calculateSpawnOffset(trail[j].velocity).normalized)

\* what a handler run reports
Report(kind, updated, rebuilt, seeded, zeroNormalize, pruned) ==
    [kind |-> kind, trailUpdated |-> updated, rebuilt |-> rebuilt,
     seeded |-> seeded, zeroNormalize |-> zeroNormalize, pruned |-> pruned]

\* mutant of OR_FrameReturnsEarly: the mode === 'off' test is missing
OR_FrameReturnsEarlyIgnoresMode(e, m) == ~e

\* whether OptimizedRibbons' frame callback returns at its first line, under
\* the props enabled = e and mode = m
OR_FrameReturnsEarly(e, m) == ~e \/ m = "off"

\* mutant of OR_Rebuilds: the subsampling is missing, every frame rebuilds
OR_RebuildsAlways(counter, trailUpdated) == TRUE

\* mutant of OR_Rebuilds: a recorded point does not trigger the rebuild
OR_RebuildsOnCounterOnly(counter, trailUpdated) ==
    counter % OR_UPDATE_FREQUENCY = 0

\* whether the frame rebuilds: frameCounter % UPDATE_FREQUENCY === 0 || trailUpdated
OR_Rebuilds(counter, trailUpdated) ==
    counter % OR_UPDATE_FREQUENCY = 0 \/ trailUpdated

\* useFrame of OptimizedRibbons rendered with the props enabled = e and
\* mode = m, on the sphere position pos at time t
OptimizedRibbonsFrame(e, m, pos, delta, t) ==
    IF OR_FrameReturnsEarly(e, m)
    THEN /\ UNCHANGED <<trailHistory, lastPosition, lastVelocity, frameCounter,
                        isInitialized, ribbonGeometries>>
         /\ lastFrame' = Report("skipped", FALSE, FALSE, FALSE, FALSE, 0)
    ELSE IF ~isInitialized
    THEN /\ trailHistory' = Append(trailHistory, TrailPoint(pos, ZeroVelocity, t))
         /\ lastPosition' = pos
         /\ isInitialized' = TRUE
         /\ UNCHANGED <<lastVelocity, frameCounter, ribbonGeometries>>
         /\ lastFrame' = Report("init", FALSE, FALSE, TRUE, FALSE, 0)
    ELSE LET rec == updateTrailHistory(trailHistory, lastPosition, lastVelocity,
                                       pos, delta, t)
             rebuild == OR_Rebuilds(frameCounter + 1, rec.updated)
             pruned == FilterByAge(rec.trailHistory, t, OR_TRAIL_LIFETIME)
         IN  /\ frameCounter' = frameCounter + 1
             /\ lastPosition' = rec.lastPosition
             /\ lastVelocity' = rec.lastVelocity
             /\ trailHistory' = IF rebuild THEN pruned ELSE rec.trailHistory
             /\ ribbonGeometries' =
                    IF rebuild
                    THEN [r \in DOMAIN ribbonGeometries |->
                            updateRibbonGeometry(ribbonGeometries[r], pruned, t)]
                    ELSE ribbonGeometries
             /\ UNCHANGED isInitialized
             /\ lastFrame' = Report("frame", rec.updated, rebuild, FALSE,
                                    rebuild /\ OR_NormalizesZero(pruned, t),
                                    IF rebuild
                                    THEN Len(rec.trailHistory) - Len(pruned)
                                    ELSE 0)

\* the disable effect of OptimizedRibbons, run when enabled or mode changed
OR_DisableEffect(e, m) ==
    IF ~e \/ m = "off"
    THEN /\ trailHistory' = <<>>
         /\ ribbonGeometries' = OR_ClearDrawRanges(ribbonGeometries)
    ELSE UNCHANGED <<trailHistory, ribbonGeometries>>

----------------------------------------------------------------------------
(* ProperRibbons *)

\* getBackSpawnPoints(position, velocity): the basis of the ring behind the
\* sphere and the vectors it passes to normalize()
getBackSpawnPoints(velocity) ==
    LET moving == VelocityLengthAbove(velocity)
        backDirection == IF moving THEN VecNeg(Normalize(velocity.v)) ELSE <<0, 0, -1>>
        rightArg == CrossVectors(backDirection, UpVec)
        rightVector == Normalize(rightArg)
        upArg == CrossVectors(rightVector, backDirection)
        upVector == Normalize(upArg)
    IN  [backDirection |-> backDirection, rightVector |-> rightVector,
         upVector |-> upVector,
         normalized |-> (IF moving THEN <<velocity.v>> ELSE <<>>) \o <<rightArg, upArg>>]

\* numerator of alpha = ageFade * positionFade for path index i (from 0) of n
\* points, over PR_AlphaDen(n)
PR_AlphaNum(age, i, n) ==
    Max(0, PR_TRAIL_LIFETIME - age) * Max(n - 1, 10 * (n - 1) - 8 * i)

PR_AlphaDen(n) == PR_TRAIL_LIFETIME * 10 * (n - 1)

\* alpha < 0.01
PR_Skipped(age, i, n) == PR_AlphaNum(age, i, n) * 100 < PR_AlphaDen(n)

\* the path indices (from 0) that emit vertices
PR_EmittedPoints(trail, currentTime) ==
    SelectSeq([k \in 1 .. Len(trail) |-> k - 1],
              LAMBDA i : ~PR_Skipped(currentTime - trail[i + 1].timestamp, i, Len(trail)))

\* mutant of PR_PointIndices: the i > 0 test is missing
PR_PointIndicesUnguarded(k, i) ==
    <<2 * k - 2, 2 * k - 1, 2 * k, 2 * k - 1, 2 * k + 1, 2 * k>>

\* indices pushed by the k-th emitted point (k from 0), whose path index is i
PR_PointIndices(k, i) ==
    IF i > 0
    THEN <<2 * k - 2, 2 * k - 1, 2 * k, 2 * k - 1, 2 * k + 1, 2 * k>>
    ELSE <<>>

RECURSIVE PR_IndexList(_, _)
PR_IndexList(emitted, k) ==
    IF k > Len(emitted) THEN <<>>
    ELSE PR_PointIndices(k - 1, emitted[k]) \o PR_IndexList(emitted, k + 1)

RECURSIVE PR_ColorList(_, _, _)
PR_ColorList(emitted, trail, currentTime) ==
    IF emitted = <<>> THEN <<>>
    ELSE LET i == Head(emitted)
             a == PR_AlphaNum(currentTime - trail[i + 1].timestamp, i, Len(trail))
         IN  <<a, a>> \o PR_ColorList(Tail(emitted), trail, currentTime)

\* updateRibbons() on the geometry of one mesh
updateRibbons(geometry, trail, currentTime) ==
    IF Len(trail) < 2 THEN geometry
    ELSE LET emitted == PR_EmittedPoints(trail, currentTime)
             indices == PR_IndexList(emitted, 1)
         IN  IF Len(emitted) > 0
             THEN [vertexCount |-> 2 * Len(emitted),
                   index |-> indices,
                   color |-> PR_ColorList(emitted, trail, currentTime),
                   colorDen |-> PR_AlphaDen(Len(trail)),
                   drawRange |-> Len(indices)]
             ELSE geometry

\* the projector calls of one updateRibbons pass a zero vector to normalize()
PR_NormalizesZero(trail) ==
    /\ Len(trail) >= 2
    /\ \E j \in 1 .. Len(trail) :
          HasZeroVector(getBackSpawnPoints(trail[j].velocity).normalized)

\* the record step of ProperRibbons' useFrame
PR_Record(trail, lastPos, lastVel, newPosition, delta, t) ==
    IF DistanceToSq(newPosition, lastPos) > PR_MOVEMENT_THRESHOLD * PR_MOVEMENT_THRESHOLD
    THEN LET vel == IF delta > 0
                    THEN DividedVelocity(VecSub(newPosition, lastPos), delta)
                    ELSE ZeroVelocity
         IN  [updated |-> TRUE,
              trailHistory |-> UnshiftLimited(trail, TrailPoint(newPosition, vel, t),
                                              PR_MAX_TRAIL_LENGTH),
              lastPosition |-> newPosition,
              lastVelocity |-> vel]
    ELSE [updated |-> FALSE, trailHistory |-> trail,
          lastPosition |-> lastPos, lastVelocity |-> lastVel]

\* the effect on [spherePosition] of ProperRibbons and SpeedTrails: seed an
\* empty trail
SeedEffect(trail, lastPos, pos, t) ==
    IF Len(trail) = 0
    THEN [seeded |-> TRUE, trailHistory |-> <<TrailPoint(pos, ZeroVelocity, t)>>,
          lastPosition |-> pos]
    ELSE [seeded |-> FALSE, trailHistory |-> trail, lastPosition |-> lastPos]

\* the spherePosition prop changes to pos (the seed effect runs), then
\* useFrame of ProperRibbons runs at time t
ProperRibbonsFrame(pos, delta, t) ==
    LET seed == SeedEffect(trailHistory, lastPosition, pos, t)
    IN  IF ~enabled
        THEN /\ trailHistory' = seed.trailHistory
             /\ lastPosition' = seed.lastPosition
             /\ UNCHANGED <<lastVelocity, frameCounter, isInitialized, ribbonGeometries>>
             /\ lastFrame' = Report("skipped", FALSE, FALSE, seed.seeded, FALSE, 0)
        ELSE LET rec == PR_Record(seed.trailHistory, seed.lastPosition, lastVelocity,
                                  pos, delta, t)
                 pruned == FilterByAge(rec.trailHistory, t, PR_TRAIL_LIFETIME)
                 rebuild == Len(pruned) >= 2
             IN  /\ trailHistory' = pruned
                 /\ lastPosition' = rec.lastPosition
                 /\ lastVelocity' = rec.lastVelocity
                 /\ ribbonGeometries' =
                        IF rebuild
                        THEN [r \in DOMAIN ribbonGeometries |->
                                updateRibbons(ribbonGeometries[r], pruned, t)]
                        ELSE ribbonGeometries
                 /\ UNCHANGED <<frameCounter, isInitialized>>
                 /\ lastFrame' = Report("frame", rec.updated, rebuild, seed.seeded,
                                        rebuild /\ PR_NormalizesZero(pruned),
                                        Len(rec.trailHistory) - Len(pruned))

\* the disable effect of ProperRibbons and SpeedTrails, run when enabled changed
MeshDisableEffect(e) ==
    IF ~e
    THEN /\ trailHistory' = <<>>
         /\ ribbonGeometries' = [r \in DOMAIN ribbonGeometries |-> EmptyGeometry]
    ELSE UNCHANGED <<trailHistory, ribbonGeometries>>

----------------------------------------------------------------------------
(* SpeedTrails *)

\* getSpawnPoints(position, velocity, count): the static ring, or the basis of
\* the ring behind the sphere, and the vectors it passes to normalize()
getSpawnPoints(velocity) ==
    IF VelocityLengthBelow(velocity)
    THEN [ring |-> "static", backwardDir |-> ZeroVec, rightDir |-> ZeroVec,
          upDir |-> ZeroVec, normalized |-> <<>>]
    ELSE LET backwardDir == VecNeg(Normalize(velocity.v))
             rightArg == CrossVectors(backwardDir, UpVec)
             rightDir == Normalize(rightArg)
             upArg == CrossVectors(rightDir, backwardDir)
             upDir == Normalize(upArg)
         IN  [ring |-> "oriented", backwardDir |-> backwardDir, rightDir |-> rightDir,
              upDir |-> upDir, normalized |-> <<velocity.v, rightArg, upArg>>]

\* numerator of alpha = ageFade * positionFade * 0.8 for path index i (from 0)
\* of n points, over ST_AlphaDen(n)
ST_AlphaNum(age, i, n) ==
    Max(0, ST_TRAIL_LIFETIME - age) * Max(0, 10 * (n - 1) - 12 * i) * 8

ST_AlphaDen(n) == ST_TRAIL_LIFETIME * 10 * (n - 1) * 10

\* alpha <= 0.01
ST_Skipped(age, i, n) == ST_AlphaNum(age, i, n) * 100 <= ST_AlphaDen(n)

\* the path indices (from 0) that emit vertices
ST_EmittedPoints(trail, currentTime) ==
    SelectSeq([k \in 1 .. Len(trail) |-> k - 1],
              LAMBDA i : ~ST_Skipped(currentTime - trail[i + 1].timestamp, i, Len(trail)))

\* indices pushed by the k-th emitted point (k from 0), whose path index is i,
\* of a path of n points
ST_PointIndices(k, i, n) ==
    IF i < n - 1
    THEN <<2 * k, 2 * k + 1, 2 * k + 2, 2 * k + 1, 2 * k + 3, 2 * k + 2>>
    ELSE <<>>

RECURSIVE ST_IndexList(_, _, _)
ST_IndexList(emitted, k, n) ==
    IF k > Len(emitted) THEN <<>>
    ELSE ST_PointIndices(k - 1, emitted[k], n) \o ST_IndexList(emitted, k + 1, n)

RECURSIVE ST_ColorList(_, _, _)
ST_ColorList(emitted, trail, currentTime) ==
    IF emitted = <<>> THEN <<>>
    ELSE LET i == Head(emitted)
             a == ST_AlphaNum(currentTime - trail[i + 1].timestamp, i, Len(trail))
         IN  <<a, a>> \o ST_ColorList(Tail(emitted), trail, currentTime)

\* updateTrailRibbons() on the geometry of one mesh
updateTrailRibbons(geometry, trail, currentTime) ==
    IF Len(trail) < 2 THEN geometry
    ELSE LET emitted == ST_EmittedPoints(trail, currentTime)
             indices == ST_IndexList(emitted, 1, Len(trail))
         IN  IF Len(emitted) > 0
             THEN [vertexCount |-> 2 * Len(emitted),
                   index |-> indices,
                   color |-> ST_ColorList(emitted, trail, currentTime),
                   colorDen |-> ST_AlphaDen(Len(trail)),
                   drawRange |-> Len(indices)]
             ELSE geometry

\* the projector calls of one updateTrailRibbons pass a zero vector to normalize()
ST_NormalizesZero(trail) ==
    /\ Len(trail) >= 2
    /\ \E j \in 1 .. Len(trail) :
          HasZeroVector(getSpawnPoints(trail[j].velocity).normalized)

\* the record step of SpeedTrails' useFrame; currentVelocity keeps its old
\* value when delta is not positive
ST_Record(trail, lastPos, currentVel, newPosition, delta, t) ==
    IF DistanceToSq(newPosition, lastPos) > ST_MOVEMENT_EPSILON * ST_MOVEMENT_EPSILON
    THEN LET vel == IF delta > 0
                    THEN DividedVelocity(VecSub(newPosition, lastPos), delta)
                    ELSE currentVel
         IN  [updated |-> TRUE,
              trailHistory |-> UnshiftLimited(trail, TrailPoint(newPosition, vel, t),
                                              ST_MAX_TRAIL_POINTS),
              lastPosition |-> newPosition,
              lastVelocity |-> vel]
    ELSE [updated |-> FALSE, trailHistory |-> trail,
          lastPosition |-> lastPos, lastVelocity |-> currentVel]

\* the spherePosition prop changes to pos (the seed effect runs), then
\* useFrame of SpeedTrails runs at time t
SpeedTrailsFrame(pos, delta, t) ==
    LET seed == SeedEffect(trailHistory, lastPosition, pos, t)
    IN  IF ~enabled
        THEN /\ trailHistory' = seed.trailHistory
             /\ lastPosition' = seed.lastPosition
             /\ UNCHANGED <<lastVelocity, frameCounter, isInitialized, ribbonGeometries>>
             /\ lastFrame' = Report("skipped", FALSE, FALSE, seed.seeded, FALSE, 0)
        ELSE LET rec == ST_Record(seed.trailHistory, seed.lastPosition, lastVelocity,
                                  pos, delta, t)
                 pruned == FilterByAge(rec.trailHistory, t, ST_TRAIL_LIFETIME)
             IN  /\ trailHistory' = pruned
                 /\ lastPosition' = rec.lastPosition
                 /\ lastVelocity' = rec.lastVelocity
                 /\ ribbonGeometries' =
                        [r \in DOMAIN ribbonGeometries |->
                            updateTrailRibbons(ribbonGeometries[r], pruned, t)]
                 /\ UNCHANGED <<frameCounter, isInitialized>>
                 /\ lastFrame' = Report("frame", rec.updated, TRUE, seed.seeded,
                                        ST_NormalizesZero(pruned),
                                        Len(rec.trailHistory) - Len(pruned))

----------------------------------------------------------------------------
(* App: swarm mode, and AmbientParticles' return transition *)

\* returnDuration of AmbientParticles, seconds
ReturnDuration == 3

SwarmModes == {"normal", "swarm", "returning"}

\* mutant of SwarmModeUpdater: the toggle cycles on from 'returning'
SwarmModeUpdaterCycles(current, disabled) ==
    CASE current = "normal" -> [swarmMode |-> "swarm", disabled |-> disabled]
      [] current = "swarm" -> [swarmMode |-> "returning", disabled |-> TRUE]
      [] OTHER -> [swarmMode |-> "normal", disabled |-> disabled]

\* the updater cycleSwarmMode passes to setSwarmMode, and the
\* setIsSwarmButtonDisabled(true) it calls
SwarmModeUpdater(current, disabled) ==
    CASE current = "normal" -> [swarmMode |-> "swarm", disabled |-> disabled]
      [] current = "swarm" -> [swarmMode |-> "returning", disabled |-> TRUE]
      [] OTHER -> [swarmMode |-> current, disabled |-> disabled]

\* cycleSwarmMode() of the last render: it closed over that render's
\* isSwarmButtonDisabled; the updater runs on the current state
cycleSwarmMode ==
    IF rendered.isSwarmButtonDisabled
    THEN UNCHANGED <<swarmMode, isSwarmButtonDisabled, returnCompleteCalls>>
    ELSE LET next == SwarmModeUpdater(swarmMode, isSwarmButtonDisabled)
         IN  /\ swarmMode' = next.swarmMode
             /\ isSwarmButtonDisabled' = next.disabled
             /\ returnCompleteCalls' =
                    IF next.swarmMode = "returning" /\ swarmMode # "returning"
                    THEN [count |-> 0, mode |-> "none"]
                    ELSE returnCompleteCalls

\* mutant of handleReturnComplete: setIsSwarmButtonDisabled(false) is missing
handleReturnCompleteKeepsDisabled ==
    /\ swarmMode' = "normal"
    /\ isSwarmButtonDisabled' = isSwarmButtonDisabled

\* handleReturnComplete()
handleReturnComplete ==
    /\ swarmMode' = "normal"
    /\ isSwarmButtonDisabled' = FALSE

\* what a handler of App reports
Event(kind) == [kind |-> kind, swarmMode |-> swarmMode]

\* the Space key: handleKeyPress calls cycleSwarmMode
SpaceKey ==
    /\ cycleSwarmMode
    /\ lastEvent' = Event("space")
    /\ UNCHANGED <<rendered, previousSwarmMode, hasCalledReturnComplete,
                   sinceReturnStart, showControls, ribbonMode, notAppVars>>

\* a click on the swarm button: SwarmControl.handleClick, with the disabled
\* prop of the last render
SwarmControlClick ==
    /\ IF ~rendered.isSwarmButtonDisabled
       THEN cycleSwarmMode
       ELSE UNCHANGED <<swarmMode, isSwarmButtonDisabled, returnCompleteCalls>>
    /\ lastEvent' = Event("click")
    /\ UNCHANGED <<rendered, previousSwarmMode, hasCalledReturnComplete,
                   sinceReturnStart, showControls, ribbonMode, notAppVars>>

\* App renders with the current state: callbacks and props are renewed
AppRender ==
    /\ rendered # [swarmMode |-> swarmMode,
                   isSwarmButtonDisabled |-> isSwarmButtonDisabled]
    /\ rendered' = [swarmMode |-> swarmMode,
                    isSwarmButtonDisabled |-> isSwarmButtonDisabled]
    /\ lastEvent' = Event("render")
    /\ UNCHANGED <<swarmMode, isSwarmButtonDisabled, previousSwarmMode,
                   hasCalledReturnComplete, sinceReturnStart, returnCompleteCalls,
                   showControls, ribbonMode, notAppVars>>

\* mutant of ReturnIsComplete: the hasCalledReturnComplete test is missing
ReturnIsCompleteUnguarded(timeSinceReturn, called) ==
    timeSinceReturn >= ReturnDuration

\* returnProgress >= 1.0 && !hasCalledReturnComplete.current
ReturnIsComplete(timeSinceReturn, called) ==
    timeSinceReturn >= ReturnDuration /\ ~called

\* animationCallback of AmbientParticles, one second after the last frame,
\* with the swarmMode prop of the last render
animationCallback ==
    LET mode_ == rendered.swarmMode
        changed == previousSwarmMode # mode_
        elapsed == IF sinceReturnStart < ReturnDuration
                   THEN sinceReturnStart + 1 ELSE sinceReturnStart
        started == IF changed /\ mode_ = "returning" THEN 0 ELSE elapsed
        called == IF changed /\ mode_ \in {"swarm", "returning"}
                  THEN FALSE ELSE hasCalledReturnComplete
        complete == mode_ = "returning" /\ ReturnIsComplete(started, called)
    IN  /\ previousSwarmMode' = mode_
        /\ sinceReturnStart' = started
        /\ hasCalledReturnComplete' = (called \/ complete)
        /\ IF complete
           THEN /\ handleReturnComplete
                /\ returnCompleteCalls' =
                       [count |-> IF returnCompleteCalls.count < 2
                                  THEN returnCompleteCalls.count + 1
                                  ELSE returnCompleteCalls.count,
                        mode |-> swarmMode]
           ELSE UNCHANGED <<swarmMode, isSwarmButtonDisabled, returnCompleteCalls>>
        /\ lastEvent' = Event("frame")
        /\ UNCHANGED <<rendered, showControls, ribbonMode, notAppVars>>

\* the C key: handleKeyPress toggles showControls
ControlsKey ==
    /\ showControls' = ~showControls
    /\ lastEvent' = Event("controls")
    /\ UNCHANGED <<swarmMode, isSwarmButtonDisabled, ribbonMode, rendered,
                   previousSwarmMode, hasCalledReturnComplete, sinceReturnStart,
                   returnCompleteCalls, notAppVars>>

\* a click on a mode button of RibbonControls: handleRibbonModeChange(m)
handleRibbonModeChange(m) ==
    /\ ribbonMode' = m
    /\ lastEvent' = Event("ribbon")
    /\ UNCHANGED <<swarmMode, isSwarmButtonDisabled, showControls, rendered,
                   previousSwarmMode, hasCalledReturnComplete, sinceReturnStart,
                   returnCompleteCalls, notAppVars>>

AppInit ==
    /\ swarmMode = "normal"
    /\ isSwarmButtonDisabled = FALSE
    /\ showControls = FALSE
    /\ ribbonMode = "both"
    /\ rendered = [swarmMode |-> "normal", isSwarmButtonDisabled |-> FALSE]
    /\ previousSwarmMode = "normal"
    /\ hasCalledReturnComplete = FALSE
    /\ sinceReturnStart = 0
    /\ returnCompleteCalls = [count |-> 0, mode |-> "none"]
    /\ lastEvent = [kind |-> "none", swarmMode |-> "normal"]

----------------------------------------------------------------------------
(* AuthScreen *)

\* timeouts of handleSubmit that may be pending at once
MaxPendingAuth == 2

ACCESS_CODE == <<"1", "1", "2", "3", "4">>
MAX_LEN == Len(ACCESS_CODE)

\* the keys of the keypad that are explored
Digits == {"1", "2", "3", "4"}

\* value.replace(/[^0-9]/g, ''): the digits of value, in order
RECURSIVE DigitsOnly(_)
DigitsOnly(value) ==
    IF value = <<>> THEN <<>>
    ELSE IF Head(value) \in {"0", "1", "2", "3", "4", "5", "6", "7", "8", "9"}
         THEN <<Head(value)>> \o DigitsOnly(Tail(value))
         ELSE DigitsOnly(Tail(value))

\* slice(0, n)
SliceTo(str, n) == IF Len(str) > n THEN SubSeq(str, 1, n) ELSE str

\* handleChange(event), event.target.value = value
handleChange(value) ==
    /\ code' = SliceTo(DigitsOnly(value), MAX_LEN)
    /\ status' = IF status # "idle" THEN "idle" ELSE status
    /\ UNCHANGED <<pendingAuth, lastAuth, notAuthVars>>

\* handleSubmit(event); the submit button is disabled while the code is short
handleSubmit ==
    /\ Len(code) >= MAX_LEN
    /\ IF code = ACCESS_CODE
       THEN /\ pendingAuth < MaxPendingAuth
            /\ status' = "success"
            /\ pendingAuth' = pendingAuth + 1
       ELSE /\ status' = "error"
            /\ UNCHANGED pendingAuth
    /\ UNCHANGED <<code, lastAuth, notAuthVars>>

\* handleKeyPress(digit)
handleKeyPress(digit) ==
    /\ IF Len(code) >= MAX_LEN \/ status = "success"
       THEN UNCHANGED <<code, status>>
       ELSE /\ code' = SliceTo(code \o <<digit>>, MAX_LEN)
            /\ status' = IF status # "idle" THEN "idle" ELSE status
    /\ UNCHANGED <<pendingAuth, lastAuth, notAuthVars>>

\* handleBackspace()
handleBackspace ==
    /\ IF Len(code) = 0 \/ status = "success"
       THEN UNCHANGED <<code, status>>
       ELSE /\ code' = SubSeq(code, 1, Len(code) - 1)
            /\ status' = IF status # "idle" THEN "idle" ELSE status
    /\ UNCHANGED <<pendingAuth, lastAuth, notAuthVars>>

\* handleClear()
handleClear ==
    /\ IF status = "success"
       THEN UNCHANGED <<code, status>>
       ELSE /\ code' = <<>>
            /\ status' = "idle"
    /\ UNCHANGED <<pendingAuth, lastAuth, notAuthVars>>

\* a timeout of handleSubmit fires, 450 ms after the submit: onAuth?.()
AuthTimeout ==
    /\ pendingAuth > 0
    /\ pendingAuth' = pendingAuth - 1
    /\ lastAuth' = [fired |-> TRUE, matches |-> code = ACCESS_CODE, status |-> status]
    /\ UNCHANGED <<code, status, notAuthVars>>

\* what the user can type or paste into the input, which has maxLength
\* MAX_LEN: a character more (a digit or a letter), a character less, or the
\* whole passcode
InputValues ==
    {value \in {code \o <<c>> : c \in Digits \cup {"x"}} : Len(value) <= MAX_LEN}
        \cup {SubSeq(code, 1, Len(code) - 1) : n \in {1} \cap (1 .. Len(code))}
        \cup {ACCESS_CODE}

AuthInit ==
    /\ code = <<>>
    /\ status = "idle"
    /\ pendingAuth = 0
    /\ lastAuth = [fired |-> FALSE, matches |-> FALSE, status |-> "idle"]

----------------------------------------------------------------------------
(* PerformanceMonitor *)

PERFORMANCE_THRESHOLDS == [EXCELLENT |-> 55, GOOD |-> 40, POOR |-> 25, CRITICAL |-> 15]

\* frames between two measurements
FramesPerMeasurement == 30

\* measurements kept in fpsArray
MaxFpsSamples == 10

\* the time 30 frames took, in ms, that are explored: 60 fps and 10 fps
Deltas == {500, 3000}

\* Math.round(a / b) for positive a and b
RoundDiv(a, b) == (2 * a + b) \div (2 * b)

RECURSIVE SumSeq(_)
SumSeq(seq) == IF seq = <<>> THEN 0 ELSE Head(seq) + SumSeq(Tail(seq))

\* Math.round(fpsArray.reduce((a, b) => a + b, 0) / fpsArray.length)
AverageFps(samples) == RoundDiv(SumSeq(samples), Len(samples))

\* push, and shift when more than 10 are held
PushFps(samples, currentFps) ==
    LET pushed == Append(samples, currentFps)
    IN  IF Len(pushed) > MaxFpsSamples THEN Tail(pushed) ELSE pushed

\* newLevel of measureFPS
LevelOf(averageFps) ==
    IF averageFps >= PERFORMANCE_THRESHOLDS.EXCELLENT THEN "EXCELLENT"
    ELSE IF averageFps >= PERFORMANCE_THRESHOLDS.GOOD THEN "GOOD"
    ELSE IF averageFps >= PERFORMANCE_THRESHOLDS.POOR THEN "POOR"
    ELSE "CRITICAL"

\* App's handlePerformanceChange(level, fps)
handlePerformanceChange(level) == performanceLevel' = level

\* measureFPS, one animation frame; delta is the time since the last
\* measurement. The effect is set up again after every change of the monitor's
\* performanceLevel, so the callback compares with the current monitorLevel.
measureFPS(delta) ==
    /\ frameCount' = (frameCount + 1) % FramesPerMeasurement
    /\ IF frameCount' = 0
       THEN LET currentFps == RoundDiv(FramesPerMeasurement * 1000, delta)
                samples == PushFps(fpsArray, currentFps)
                averageFps == AverageFps(samples)
                newLevel == LevelOf(averageFps)
            IN  /\ fpsArray' = samples
                /\ fps' = averageFps
                /\ IF newLevel # monitorLevel
                   THEN /\ monitorLevel' = newLevel
                        /\ handlePerformanceChange(newLevel)
                   ELSE UNCHANGED <<monitorLevel, performanceLevel>>
       ELSE UNCHANGED <<fpsArray, fps, monitorLevel, performanceLevel>>
    /\ UNCHANGED notPerfVars

PerfInit ==
    /\ frameCount = 0
    /\ fpsArray = <<>>
    /\ fps = 60
    /\ monitorLevel = "EXCELLENT"
    /\ performanceLevel = "GOOD"

----------------------------------------------------------------------------
(* PlaneInstancerWithColor: the grass trail recorder *)

\* frames of the grass that are explored
MaxGrassFrames == 24

\* frames without a recording among them
MaxIdleFrames == 2

\* the time between two frames, in ms
GrassDt == 16

\* the 20 trail slots of trailTimes, trailPositions (20 * 3) and the shader
TrailSlots == 20

\* minTrailDistance 0.5
MinTrailDistance == 500

\* a step of the sphere along x between two frames that is recorded, and one
\* of exactly minTrailDistance that is not
FastSteps == {600}
SlowSteps == {MinTrailDistance}

Min(a, b) == IF a <= b THEN a ELSE b

\* a store into a Float32Array keeps 24 significant bits (ties to even); v >= 0
RECURSIVE Float32Ulp(_, _)
Float32Ulp(v, p) == IF v \div p < 16777216 THEN p ELSE Float32Ulp(v, 2 * p)

Float32(v) ==
    LET p == Float32Ulp(v, 1)
        q == v \div p
        r == v % p
    IN  IF 2 * r > p \/ (2 * r = p /\ q % 2 = 1) THEN (q + 1) * p ELSE q * p

\* index = trailIndex.current % 20
TrailWriteIndex(i) == i % TrailSlots

TrailCountUncapped(i) == i + 1

\* Math.min(trailIndex.current + 1, 20)
TrailCountAfter(i) == Min(i + 1, TrailSlots)

\* array with array[index] = value; index counts from 0
StoreAt(array, index, value) == [array EXCEPT ![index + 1] = Float32(value)]

\* the position held by slot index of a flattened array of positions
SlotPosition(array, index) ==
    <<array[3 * index + 1], array[3 * index + 2], array[3 * index + 3]>>

\* material.onBeforeCompile: the shader gets its uniforms, trailCount 0
onBeforeCompile ==
    /\ ~shaderReady
    /\ shaderReady' = TRUE
    /\ trailCount' = 0
    /\ UNCHANGED <<spherePosRef, trailPositions, trailTimes, trailIndex,
                   lastRecordedPosition, elapsedTime, grassPhase, idleSpent,
                   recorded, lastGrassFrame, notGrassVars>>

\* handleSphereMove(newPosition), called by MovingSphere once a frame
handleSphereMove(newPosition) ==
    /\ grassPhase = "move"
    /\ elapsedTime < MaxGrassFrames * GrassDt
    /\ spherePosRef' = newPosition
    /\ grassPhase' = "frame"
    /\ UNCHANGED <<shaderReady, trailPositions, trailTimes, trailIndex,
                   lastRecordedPosition, trailCount, elapsedTime, idleSpent,
                   recorded, lastGrassFrame, notGrassVars>>

\* the useFrame callback of PlaneInstancerWithColor. The uniforms time,
\* cameraPos, spherePos, currentTime and deltaTime it also sets are not kept.
\* The uniforms trailPositions and trailTimes are the refs' arrays from the
\* first recording on and arrays of zeros before, as the refs' arrays are.
PlaneInstancerFrame ==
    LET currentTime == elapsedTime + GrassDt
        currentPos == spherePosRef
        records == DistanceToSq(currentPos, lastRecordedPosition)
                       > MinTrailDistance * MinTrailDistance
        index == TrailWriteIndex(trailIndex)
        baseIndex == index * 3
    IN  /\ grassPhase = "frame"
        /\ (shaderReady /\ records) \/ idleSpent < MaxIdleFrames
        /\ grassPhase' = "move"
        /\ elapsedTime' = currentTime
        /\ IF ~shaderReady
           THEN /\ lastGrassFrame' = "early"
                /\ idleSpent' = idleSpent + 1
                /\ UNCHANGED <<trailPositions, trailTimes, trailIndex,
                               lastRecordedPosition, trailCount, recorded>>
           ELSE IF records
           THEN /\ trailPositions' =
                       StoreAt(StoreAt(StoreAt(trailPositions, baseIndex, currentPos[1]),
                                       baseIndex + 1, currentPos[2]),
                               baseIndex + 2, currentPos[3])
                /\ trailTimes' = StoreAt(trailTimes, index, currentTime)
                /\ trailCount' = TrailCountAfter(trailIndex)
                /\ lastRecordedPosition' = currentPos
                /\ trailIndex' = trailIndex + 1
                /\ recorded' = Append(recorded, [position |-> currentPos, time |-> currentTime])
                /\ lastGrassFrame' = "recorded"
                /\ UNCHANGED idleSpent
           ELSE /\ lastGrassFrame' = "skipped"
                /\ idleSpent' = idleSpent + 1
                /\ UNCHANGED <<trailPositions, trailTimes, trailIndex,
                               lastRecordedPosition, trailCount, recorded>>
        /\ UNCHANGED <<shaderReady, spherePosRef, notGrassVars>>

\* where MovingSphere can be next
NextSpherePositions ==
    {VecAdd(spherePosRef, <<step, 0, 0>>) : step \in FastSteps \cup SlowSteps}

GrassInit ==
    /\ shaderReady = FALSE
    /\ spherePosRef = <<0, 1200, 0>>
    /\ trailPositions = [i \in 1 .. 3 * TrailSlots |-> 0]
    /\ trailTimes = [i \in 1 .. TrailSlots |-> 0]
    /\ trailIndex = 0
    /\ lastRecordedPosition = ZeroVec
    /\ trailCount = 0
    /\ elapsedTime = 0
    /\ grassPhase = "move"
    /\ idleSpent = 0
    /\ recorded = <<>>
    /\ lastGrassFrame = "none"

----------------------------------------------------------------------------
(* MovingSphere: the search for the base mesh *)

\* objects the scene can hold
MaxSceneObjects == 3

\* names are sequences of characters
Name_Ground == <<"G", "r", "o", "u", "n", "d">>
Name_terrain == <<"t", "e", "r", "r", "a", "i", "n">>
Name_grass == <<"g", "r", "a", "s", "s">>
Name_instance == <<"i", "n", "s", "t", "a", "n", "c", "e">>
Name_ribbon == <<"r", "i", "b", "b", "o", "n">>
Name_trail == <<"t", "r", "a", "i", "l">>
Name_particle == <<"p", "a", "r", "t", "i", "c", "l", "e">>
Name_point == <<"p", "o", "i", "n", "t">>

\* String.prototype.includes
Includes(name, sub) ==
    \E i \in 1 .. (Len(name) - Len(sub) + 1) : SubSeq(name, i, i + Len(sub) - 1) = sub

SceneObject(name, isMesh, geometryType, hasPosition) ==
    [name |-> name, isMesh |-> isMesh, geometryType |-> geometryType,
     hasPosition |-> hasPosition]

\* the kinds of object that are explored: two meshes that can be raycast
\* (one named, one not), the grass, the particles, a mesh of a SphereGeometry,
\* a mesh without positions, a group, and a mesh named 'Ground'
ObjectKinds ==
    {SceneObject(Name_terrain, TRUE, "BufferGeometry", TRUE),
     SceneObject(<<>>, TRUE, "BufferGeometry", TRUE),
     SceneObject(Name_grass \o <<"-">> \o Name_instance \o <<"s">>, TRUE, "BufferGeometry", TRUE),
     SceneObject(Name_particle \o <<"s">>, TRUE, "BufferGeometry", TRUE),
     SceneObject(<<>>, TRUE, "SphereGeometry", TRUE),
     SceneObject(<<>>, TRUE, "BufferGeometry", FALSE),
     SceneObject(<<>>, FALSE, "none", FALSE),
     SceneObject(Name_Ground, TRUE, "BufferGeometry", TRUE)}

\* the test of the traversal's callback
Qualifies(child) ==
    /\ child.isMesh
    /\ child.geometryType = "BufferGeometry"
    /\ child.hasPosition
    /\ ~Includes(child.name, Name_grass)
    /\ ~Includes(child.name, Name_instance)
    /\ ~Includes(child.name, Name_ribbon) /\ ~Includes(child.name, Name_trail)
    /\ ~Includes(child.name, Name_particle) /\ ~Includes(child.name, Name_point)

\* scene.getObjectByName('Ground'): the first object of that name, 0 if none
GetObjectByName(objects, name) ==
    LET named == {i \in 1 .. Len(objects) : objects[i].name = name}
    IN  IF named = {} THEN 0 ELSE CHOOSE i \in named : \A j \in named : i <= j

\* scene.traverse(callback) from object i on: the callback runs for every
\* object, its return only ends the call for that object
RECURSIVE Traverse(_, _, _)
Traverse(objects, i, ref) ==
    IF i > Len(objects) THEN ref
    ELSE Traverse(objects, i + 1, IF Qualifies(objects[i]) THEN i ELSE ref)

\* a component mounts and adds an object to the scene
SceneAdd(object) ==
    /\ Len(sceneObjects) < MaxSceneObjects
    /\ sceneObjects' = Append(sceneObjects, object)
    /\ UNCHANGED <<sphereInitialized, baseMeshRef, cachedBy, notMeshVars>>

\* MovingSphere's useFrame callback up to the search for the base mesh; the
\* movement of sphere and camera that follows is not kept
MovingSphereFrame ==
    /\ IF ~sphereInitialized
       THEN /\ sphereInitialized' = TRUE
            /\ UNCHANGED <<baseMeshRef, cachedBy>>
       ELSE /\ UNCHANGED sphereInitialized
            /\ IF baseMeshRef = 0
               THEN LET groundByName == GetObjectByName(sceneObjects, Name_Ground)
                        found == Traverse(sceneObjects, 1, baseMeshRef)
                    IN  IF groundByName # 0 /\ sceneObjects[groundByName].isMesh
                        THEN /\ baseMeshRef' = groundByName
                             /\ cachedBy' = "name"
                        ELSE /\ baseMeshRef' = found
                             /\ cachedBy' = IF found # 0 THEN "traversal" ELSE cachedBy
               ELSE UNCHANGED <<baseMeshRef, cachedBy>>
    /\ UNCHANGED <<sceneObjects, notMeshVars>>

MeshInit ==
    /\ sceneObjects = <<>>
    /\ sphereInitialized = FALSE
    /\ baseMeshRef = 0
    /\ cachedBy = "none"

----------------------------------------------------------------------------
(* The environment: frames and prop changes *)

RegularMove == <<0, 0, 1000>>
RegularDt == 100

\* a displacement of exactly the component's movement threshold
ThresholdMove(c) ==
    CASE c = "OptimizedRibbons" -> <<0, 0, OR_MOVEMENT_THRESHOLD>>
      [] c = "ProperRibbons" -> <<0, 0, PR_MOVEMENT_THRESHOLD>>
      [] OTHER -> <<0, 0, ST_MOVEMENT_EPSILON>>

\* sphere displacements between two frames
Moves(c) == {RegularMove, ZeroVec, ThresholdMove(c), <<0, 500, 0>>}

\* a frame interval that leaves a point just inside its lifetime
LongDt(c) == TrailLifetime(c) - 30

\* a frame interval that leaves a point's age fade just above the 0.01 cutoff
CutoffDt(c) == TrailLifetime(c) - 40

\* frame intervals, ms; the interval near the cutoff matters to the builder
\* that tests the age fade alone
Dts(c) == {RegularDt, 0, LongDt(c)}
              \cup (IF c = "OptimizedRibbons" THEN {CutoffDt(c)} ELSE {})

Cost(move, dt) == IF move = RegularMove /\ dt = RegularDt THEN 1 ELSE IrregularCost

\* one displayed frame: the sphere has moved by move and dt ms have passed
\* when the component's frame callback runs
Tick(move, dt) ==
    /\ spent + Cost(move, dt) <= MaxBudget
    /\ spent' = spent + Cost(move, dt)
    /\ now' = now + dt
    /\ spherePosition' = VecAdd(spherePosition, move)
    /\ UNCHANGED <<component, enabled, mode, notRibbonVars>>
    /\ CASE component = "OptimizedRibbons" ->
                OptimizedRibbonsFrame(enabled, mode, spherePosition', dt, now')
         [] component = "ProperRibbons" ->
                ProperRibbonsFrame(spherePosition', dt, now')
         [] OTHER ->
                SpeedTrailsFrame(spherePosition', dt, now')

\* the parent re-renders the component with new props; its disable effect runs
SetProps(e, m) ==
    /\ <<e, m>> # <<enabled, mode>>
    /\ component # "OptimizedRibbons" => m = mode
    /\ spent + IrregularCost <= MaxBudget
    /\ spent' = spent + IrregularCost
    /\ enabled' = e
    /\ mode' = m
    /\ IF component = "OptimizedRibbons"
       THEN OR_DisableEffect(e, m)
       ELSE MeshDisableEffect(e)
    /\ lastFrame' = Report("props", FALSE, FALSE, FALSE, FALSE, 0)
    /\ UNCHANGED <<component, now, spherePosition, lastPosition, lastVelocity,
                   frameCounter, isInitialized, notRibbonVars>>

\* after mount: OptimizedRibbons seeds its trail in its first frame, the
\* other two were given a sphere position and their seed effect has run
Init ==
    /\ component \in Components
    /\ now = 0
    /\ spherePosition = ZeroVec
    /\ enabled = TRUE
    /\ mode = "both"
    /\ trailHistory = IF component = "OptimizedRibbons" THEN <<>>
                      ELSE SeedEffect(<<>>, ZeroVec, ZeroVec, 0).trailHistory
    /\ lastPosition = ZeroVec
    /\ lastVelocity = ZeroVelocity
    /\ frameCounter = 0
    /\ isInitialized = FALSE
    /\ ribbonGeometries = [r \in 0 .. (RibbonCount(component) - 1) |-> EmptyGeometry]
    /\ lastFrame = Report("none", FALSE, FALSE, component # "OptimizedRibbons", FALSE, 0)
    /\ spent = 0
    /\ AppInit
    /\ AuthInit
    /\ PerfInit
    /\ GrassInit
    /\ MeshInit

Next ==
    \/ \E move \in Moves(component), dt \in Dts(component) : Tick(move, dt)
    \/ \E e \in BOOLEAN, m \in Modes : SetProps(e, m)

Spec == Init /\ [][Next]_vars

\* App with its swarm button, key handler and AmbientParticles
AppNext ==
    \/ SpaceKey
    \/ SwarmControlClick
    \/ AppRender
    \/ animationCallback
    \/ ControlsKey
    \/ \E m \in Modes : handleRibbonModeChange(m)

\* App mounted, with the ribbon effect MovingSphere mounts
AppMounted == Init /\ component = "OptimizedRibbons"

AppSpec == AppMounted /\ [][AppNext]_vars

\* AuthScreen with its input, keypad, buttons and timeout
AuthNext ==
    \/ \E value \in InputValues : handleChange(value)
    \/ handleSubmit
    \/ \E digit \in Digits : handleKeyPress(digit)
    \/ handleBackspace
    \/ handleClear
    \/ AuthTimeout

AuthSpec == AppMounted /\ [][AuthNext]_vars

\* PerformanceMonitor's animation frames
PerfNext == \E delta \in Deltas : measureFPS(delta)

PerfSpec == AppMounted /\ [][PerfNext]_vars

\* the grass: the material is compiled, the sphere moves, frames run
GrassNext ==
    \/ onBeforeCompile
    \/ \E newPosition \in NextSpherePositions : handleSphereMove(newPosition)
    \/ PlaneInstancerFrame

GrassSpec == AppMounted /\ [][GrassNext]_vars

\* the scene fills while MovingSphere's frames run
MeshNext ==
    \/ \E object \in ObjectKinds : SceneAdd(object)
    \/ MovingSphereFrame

MeshSpec == AppMounted /\ [][MeshNext]_vars

\* App while frames keep being rendered: the frame loop runs
\* animationCallback again and again, and React renders a changed state
AppFairSpec ==
    AppMounted /\ [][AppNext]_vars
        /\ WF_vars(animationCallback) /\ WF_vars(AppRender)

----------------------------------------------------------------------------
(* Properties *)

IsOptimized == component = "OptimizedRibbons"
IsProper == component = "ProperRibbons"
IsSpeed == component = "SpeedTrails"

\* the step is a displayed frame (not a change of props)
FrameStep == spent' # spent /\ enabled' = enabled /\ mode' = mode

\* the step is a frame in which the component's record step ran
RecordingFrameStep == spent' # spent /\ lastFrame'.kind = "frame"

\* the trail after a frame whose record step appended nothing: untouched,
\* or with only its expired points removed by the frame's age filter
OnlyPruned(before, after) ==
    after = before \/ after = FilterByAge(before, now', TrailLifetime(component))

\* C1: the trail history of each ribbon effect never holds more points than
\* its configured maximum (20, 15, 25), the seeded point included.
C1_TrailWithinMaximum ==
    Len(trailHistory) <= MaxTrail(component)

\* C1 witness: OptimizedRibbons has recorded into a full buffer, the point
\* cut off being younger than the lifetime
C1_Witness ==
    /\ IsOptimized
    /\ lastFrame.trailUpdated
    /\ Len(trailHistory) = OR_MAX_TRAIL_POINTS
    /\ frameCounter >= OR_MAX_TRAIL_POINTS
    /\ lastFrame.pruned = 0

C4_DisabledStaysCleared ==
    (IsOptimized /\ (~enabled \/ mode = "off")) =>
        /\ trailHistory = <<>>
        /\ \A r \in DOMAIN ribbonGeometries : ribbonGeometries[r].drawRange = 0

\* C4 witness: a frame ran while disabled, after the sphere had moved away
\* from the last recorded position and geometry had been built before
C4_Witness ==
    /\ IsOptimized
    /\ ~enabled \/ mode = "off"
    /\ lastFrame.kind = "skipped"
    /\ spherePosition # lastPosition
    /\ ribbonGeometries[0].vertexCount > 0

\* C5 as stated: in OptimizedRibbons, with the trail cleared by the disable
\* effect and the effect enabled again, the first frame that records a
\* qualifying movement leaves at least 2 points and a non-zero draw range.
C5_ActiveOnFirstSample ==
    [][(RecordingFrameStep /\ IsOptimized /\ lastFrame.kind = "props"
        /\ trailHistory = <<>> /\ lastFrame'.trailUpdated)
       => /\ Len(trailHistory') >= 2
          /\ \A r \in DOMAIN ribbonGeometries : ribbonGeometries'[r].drawRange > 0]_vars

\* C5 amended: in OptimizedRibbons, the first frame that records a qualifying
\* movement into a cleared trail leaves exactly 1 point and the draw ranges
\* as they were (0 after the disable effect); a frame that records a
\* qualifying movement and leaves at least 2 points rebuilds the geometry
\* with a non-zero draw range.
C5_ActiveOnSecondSample ==
    [][(RecordingFrameStep /\ IsOptimized /\ lastFrame'.trailUpdated)
       => /\ trailHistory = <<>>
               => /\ Len(trailHistory') = 1
                  /\ \A r \in DOMAIN ribbonGeometries :
                        ribbonGeometries'[r].drawRange = ribbonGeometries[r].drawRange
          /\ Len(trailHistory') >= 2
               => \A r \in DOMAIN ribbonGeometries :
                     ribbonGeometries'[r].drawRange > 0]_vars

\* C5 witness: after geometry had been built and the draw ranges cleared,
\* a frame recorded the only point of the trail
C5_Witness ==
    /\ IsOptimized
    /\ lastFrame.kind = "frame"
    /\ lastFrame.trailUpdated
    /\ Len(trailHistory) = 1
    /\ lastFrame.pruned = 0
    /\ ribbonGeometries[0].vertexCount > 0
    /\ ribbonGeometries[0].drawRange = 0

\* C6 as stated: in OptimizedRibbons, after every frame on which geometry is
\* updated each ribbon's drawn index count is 6 times the number of segments
\* emitted from the surviving points, and 0 when fewer than 2 points survive.
C6_DrawRangeFollowsTrail ==
    (IsOptimized /\ lastFrame.kind = "frame" /\ lastFrame.rebuilt) =>
        \A r \in DOMAIN ribbonGeometries :
            ribbonGeometries[r].drawRange =
                IF Len(trailHistory) < 2 THEN 0
                ELSE 6 * Cardinality({k \in 1 .. (Len(trailHistory) - 1) :
                        (OR_TRAIL_LIFETIME - (now - trailHistory[k].timestamp)) * 100
                            > OR_TRAIL_LIFETIME})

\* C7 as stated: given a trail of exactly 2 points, both younger than the
\* lifetime, updateRibbonGeometry emits 4 vertices and 6 indices and sets the
\* draw range to 6.
C7_TwoPointsOneSegment ==
    (IsOptimized /\ lastFrame.kind = "frame" /\ lastFrame.rebuilt
     /\ Len(trailHistory) = 2) =>
        \A r \in DOMAIN ribbonGeometries :
            /\ ribbonGeometries[r].vertexCount = 4
            /\ Len(ribbonGeometries[r].index) = 6
            /\ ribbonGeometries[r].drawRange = 6

\* C7 amended: given a trail of exactly 2 points whose newer point has an age
\* fade above the 0.01 cutoff (age < 0.99 * TRAIL_LIFETIME),
\* updateRibbonGeometry emits 4 vertices and 6 indices and sets the draw
\* range to 6; with the newer point at or below the cutoff it emits nothing
\* and sets the draw range to 0.
C7_TwoPointsAboveCutoff ==
    (IsOptimized /\ lastFrame.kind = "frame" /\ lastFrame.rebuilt
     /\ Len(trailHistory) = 2) =>
        \A r \in DOMAIN ribbonGeometries :
            IF (OR_TRAIL_LIFETIME - (now - trailHistory[1].timestamp)) * 100
                  > OR_TRAIL_LIFETIME
            THEN /\ ribbonGeometries[r].vertexCount = 4
                 /\ ribbonGeometries[r].index = <<0, 1, 2, 1, 3, 2>>
                 /\ ribbonGeometries[r].drawRange = 6
            ELSE ribbonGeometries[r].drawRange = 0

\* C7 witness: a rebuild from exactly 2 points drew one segment
C7_Witness ==
    /\ IsOptimized
    /\ lastFrame.kind = "frame"
    /\ lastFrame.rebuilt
    /\ Len(trailHistory) = 2
    /\ ribbonGeometries[0].drawRange = 6

\* the component's mesh builder applied to one geometry
Builder(geometry, trail, currentTime) ==
    CASE IsOptimized -> updateRibbonGeometry(geometry, trail, currentTime)
      [] IsProper -> updateRibbons(geometry, trail, currentTime)
      [] OTHER -> updateTrailRibbons(geometry, trail, currentTime)

\* C8: given a trail of 1 point or none, every ribbon mesh builder writes no
\* vertices and no indices: a frame that runs the builder on such a trail
\* leaves every geometry as it was, and so does the builder applied to the
\* trail the frame leaves.
C8_ShortTrailWritesNothing ==
    [][(spent' # spent /\ Len(trailHistory') < 2)
       => /\ (lastFrame'.kind = "frame" /\ lastFrame'.rebuilt)
               => ribbonGeometries' = ribbonGeometries
          /\ \A r \in DOMAIN ribbonGeometries :
                Builder(ribbonGeometries'[r], trailHistory', now')
                    = ribbonGeometries'[r]]_vars

\* C8 witness: a builder was run on a trail of one point while an earlier
\* geometry was still held
C8_Witness ==
    /\ lastFrame.kind = "frame"
    /\ lastFrame.rebuilt
    /\ Len(trailHistory) = 1
    /\ ribbonGeometries[0].vertexCount > 0

\* the trail of the end-to-end scenario: 5 points at (0,0,0)..(0,0,4),
\* recorded 100 ms apart, the newest one just now
C9_Scenario ==
    /\ IsOptimized
    /\ lastFrame.kind = "frame"
    /\ lastFrame.rebuilt
    /\ Len(trailHistory) = 5
    /\ \A k \in 1 .. 5 :
          /\ trailHistory[k].position = <<0, 0, 1000 * (5 - k)>>
          /\ trailHistory[k].timestamp = now - 100 * (k - 1)

\* C9: for the pooled builder, the scenario's rebuild emits 4 segments, 16
\* vertices and 24 indices, with alpha strictly decreasing from the newest
\* segment to the oldest.
C9_EndToEnd ==
    C9_Scenario =>
        \A r \in DOMAIN ribbonGeometries :
            LET g == ribbonGeometries[r]
            IN  /\ g.vertexCount = 16
                /\ Len(g.index) = 24
                /\ g.drawRange = 24
                /\ Len(g.color) = 16
                /\ \A v \in 1 .. 12 : g.color[v] >= g.color[v + 4]
                /\ \A seg \in 0 .. 2 : g.color[4 * seg + 1] > g.color[4 * seg + 5]

\* C9 witness: the scenario's trail has been rebuilt
C9_Witness == C9_Scenario

\* C10 as stated: the spawn-point projectors never pass a zero-length vector
\* to normalize(), whatever the velocity, and give the fixed fallback for a
\* zero velocity.
C10_NeverNormalizesZero ==
    /\ ~lastFrame.zeroNormalize
    /\ ~HasZeroVector(getBackSpawnPoints(ZeroVelocity).normalized)
    /\ getBackSpawnPoints(ZeroVelocity).backDirection = <<0, 0, -1>>
    /\ getSpawnPoints(ZeroVelocity).ring = "static"
    /\ calculateSpawnOffset(ZeroVelocity).pattern = "static"

\* C11 as stated: in every rebuild of OptimizedRibbons and ProperRibbons a
\* point whose combined alpha is below the 0.01 cutoff is skipped: no vertex
\* held by a geometry has a colour scaled by an alpha below 0.01.
C11_NoVertexBelowCutoff ==
    (IsOptimized \/ IsProper) =>
        \A r \in DOMAIN ribbonGeometries :
            \A v \in 1 .. Len(ribbonGeometries[r].color) :
                ribbonGeometries[r].color[v] * 100 >= ribbonGeometries[r].colorDen

C13_OldestDiscardedFirst ==
    [][(RecordingFrameStep /\ lastFrame'.trailUpdated
        /\ Len(trailHistory) = MaxTrail(component))
       => /\ trailHistory' # <<>>
          /\ trailHistory'[1].position = spherePosition'
          /\ trailHistory'[1].timestamp = now'
          /\ Tail(trailHistory')
                = FilterByAge(SubSeq(trailHistory, 1, MaxTrail(component) - 1),
                              now', TrailLifetime(component))]_vars

\* C13 witness: ProperRibbons has recorded 16 points after the seed, one per
\* regular frame, so the last one went into a full buffer
C13_Witness ==
    /\ IsProper
    /\ lastFrame.trailUpdated
    /\ spent = 16
    /\ now = 16 * RegularDt
    /\ Len(trailHistory) = PR_MAX_TRAIL_LENGTH
    /\ trailHistory[PR_MAX_TRAIL_LENGTH].timestamp = 2 * RegularDt

\* C14: in every reachable state the trail history is ordered newest-first:
\* timestamps are non-increasing from index 0 to the last index, the seeded
\* point included, also after pruning, truncation and disable/enable cycles.
C14_NewestFirst ==
    \A k \in 1 .. (Len(trailHistory) - 1) :
        trailHistory[k].timestamp >= trailHistory[k + 1].timestamp

\* C14 witness: a frame recorded a point and pruned expired ones, leaving
\* points of different timestamps
C14_Witness ==
    /\ lastFrame.trailUpdated
    /\ lastFrame.pruned > 0
    /\ Len(trailHistory) >= 2
    /\ trailHistory[1].timestamp > trailHistory[2].timestamp

\* C15 as stated: the ribbon mode switch selects between effect variants: on
\* the same frame (same state, sphere position and interval) the trail and
\* geometry produced by the effect MovingSphere mounts, OptimizedRibbons,
\* differ between the current mode and at least one other of the non-off
\* modes 'basic', 'speed' and 'both'.
C15_ModesDiffer ==
    [][(FrameStep /\ IsOptimized /\ enabled /\ mode # "off"
        /\ lastFrame'.rebuilt /\ Len(trailHistory') >= 2)
       => \E m \in (Modes \ {"off", mode}) :
             ~OptimizedRibbonsFrame(enabled, m, spherePosition', now' - now, now')]_vars

\* C16 as stated: in ProperRibbons and SpeedTrails, while enabled = false the
\* trail history stays empty: after the disable effect has cleared it, no
\* change of the spherePosition prop adds a point.
C16_DisabledTrailStaysEmpty ==
    (~IsOptimized /\ ~enabled) => trailHistory = <<>>

\* every index of the geometry refers to one of its vertices
IndicesInRange(geometry) ==
    \A k \in 1 .. Len(geometry.index) :
        /\ 0 <= geometry.index[k]
        /\ geometry.index[k] < geometry.vertexCount

\* C17 as stated: in SpeedTrails, after every rebuild of a trail of 2 or more
\* points every triangle index written to a ribbon's index list refers to a
\* vertex emitted in the same rebuild, also when trailing path points are
\* skipped by the alpha cutoff.
C17_SpeedIndicesInRange ==
    (IsSpeed /\ lastFrame.kind = "frame" /\ Len(trailHistory) >= 2) =>
        \A r \in DOMAIN ribbonGeometries : IndicesInRange(ribbonGeometries[r])

\* C18: in ProperRibbons.updateRibbons, for every trail ordered newest-first
\* the path points skipped by the alpha cutoff form a suffix of the path, so
\* every emitted triangle index refers to an emitted vertex (prevIndex is
\* never negative and never refers to a skipped point).
C18_SkippedSuffix ==
    (IsProper /\ lastFrame.kind = "frame" /\ lastFrame.rebuilt) =>
        LET emitted == PR_EmittedPoints(trailHistory, now)
        IN  /\ \A k \in 1 .. Len(emitted) : emitted[k] = k - 1
            /\ \A r \in DOMAIN ribbonGeometries :
                  /\ IndicesInRange(ribbonGeometries[r])
                  /\ Len(emitted) > 0 =>
                        /\ ribbonGeometries[r].vertexCount = 2 * Len(emitted)
                        /\ Len(ribbonGeometries[r].index) = 6 * (Len(emitted) - 1)

\* C18 witness: a rebuild of ProperRibbons emitted the first two path points
\* and skipped a younger-than-lifetime point behind them
C18_Witness ==
    /\ IsProper
    /\ lastFrame.kind = "frame"
    /\ lastFrame.rebuilt
    /\ Len(PR_EmittedPoints(trailHistory, now)) >= 2
    /\ Len(PR_EmittedPoints(trailHistory, now)) < Len(trailHistory)
    /\ ribbonGeometries[0].vertexCount = 2 * Len(PR_EmittedPoints(trailHistory, now))

\* C19: in OptimizedRibbons.updateRibbonGeometry, for every trail of at most
\* MAX_TRAIL_POINTS points the vertex and index counts written stay within
\* the pooled buffers (vertexCount * 3 <= MAX_TRAIL_POINTS * 18, indexCount
\* <= MAX_TRAIL_POINTS * 6, every index < 65536 and referring to a written
\* vertex), the geometry receives exactly the written prefix and the draw
\* range is set to exactly indexCount.
C19_WithinPooledBuffers ==
    (IsOptimized /\ lastFrame.kind = "frame" /\ lastFrame.rebuilt
     /\ Len(trailHistory) >= 2) =>
        LET segments == Len(OR_EmittedSegments(trailHistory, now))
        IN  \A r \in DOMAIN ribbonGeometries :
               LET g == ribbonGeometries[r]
               IN  /\ 4 * segments * 3 <= OR_MAX_TRAIL_POINTS * 6 * 3
                   /\ 6 * segments <= OR_MAX_TRAIL_POINTS * 6
                   /\ g.drawRange = 6 * segments
                   /\ segments > 0 =>
                         /\ g.vertexCount = 4 * segments
                         /\ Len(g.index) = 6 * segments
                         /\ Len(g.color) = 4 * segments
                         /\ IndicesInRange(g)
                         /\ \A k \in 1 .. Len(g.index) : g.index[k] < 65536

\* C19 witness: a rebuild from a full trail of MAX_TRAIL_POINTS points wrote
\* one segment per pair of neighbours
C19_Witness ==
    /\ IsOptimized
    /\ lastFrame.kind = "frame"
    /\ lastFrame.rebuilt
    /\ Len(trailHistory) = OR_MAX_TRAIL_POINTS
    /\ ribbonGeometries[0].vertexCount = 4 * (OR_MAX_TRAIL_POINTS - 1)
    /\ ribbonGeometries[0].drawRange = 6 * (OR_MAX_TRAIL_POINTS - 1)

C21_SwarmModeTransitions ==
    [][/\ swarmMode' # swarmMode =>
            \/ swarmMode = "normal" /\ swarmMode' = "swarm"
                  /\ lastEvent'.kind \in {"space", "click"}
            \/ swarmMode = "swarm" /\ swarmMode' = "returning"
                  /\ lastEvent'.kind \in {"space", "click"}
            \/ swarmMode = "returning" /\ swarmMode' = "normal"
                  /\ lastEvent'.kind = "frame"
       /\ (lastEvent'.kind \in {"space", "click"} /\ lastEvent'.swarmMode = "returning"
           /\ swarmMode = "returning")
            => /\ swarmMode' = swarmMode
               /\ isSwarmButtonDisabled' = isSwarmButtonDisabled]_vars

\* C21 witness: a Space key arrived while swarmMode was 'returning' and the
\* last render still had the button enabled, so cycleSwarmMode ran its updater
C21_Witness ==
    /\ lastEvent = [kind |-> "space", swarmMode |-> "returning"]
    /\ swarmMode = "returning"
    /\ ~rendered.isSwarmButtonDisabled

\* C22: in every reachable state of App, isSwarmButtonDisabled is true if and
\* only if swarmMode is 'returning' (in the state and in every render).
C22_DisabledIffReturning ==
    /\ isSwarmButtonDisabled <=> swarmMode = "returning"
    /\ rendered.isSwarmButtonDisabled <=> rendered.swarmMode = "returning"

\* C22 witness: the return completed: the frame found 'returning' and left
\* 'normal' with the button enabled
C22_Witness ==
    /\ lastEvent = [kind |-> "frame", swarmMode |-> "returning"]
    /\ swarmMode = "normal"
    /\ ~isSwarmButtonDisabled
    /\ rendered.isSwarmButtonDisabled

\* C23 as stated: whenever swarmMode becomes 'returning', provided frames keep
\* being rendered, AmbientParticles eventually calls onReturnComplete and App
\* returns to swarmMode 'normal' with the swarm button enabled.
C23_ReturnCompletes ==
    (swarmMode = "returning") ~> (swarmMode = "normal" /\ ~isSwarmButtonDisabled)

\* C24: AmbientParticles calls onReturnComplete at most once per entry into
\* 'returning', also when several frames run with the swarmMode prop still
\* 'returning' after the duration has elapsed, and never while App's
\* swarmMode is 'normal' or 'swarm'.
C24_ReturnCompleteOnce ==
    /\ returnCompleteCalls.count <= 1
    /\ returnCompleteCalls.mode \in {"none", "returning"}

\* C24 witness: after the call, with App already 'normal', another frame ran
\* with the swarmMode prop still 'returning' and did not call again
C24_Witness ==
    /\ lastEvent = [kind |-> "frame", swarmMode |-> "normal"]
    /\ rendered.swarmMode = "returning"
    /\ hasCalledReturnComplete
    /\ returnCompleteCalls = [count |-> 1, mode |-> "returning"]

\* C25 as stated: in AuthScreen, whenever onAuth fires, status is 'success'
\* and the entered code equals ACCESS_CODE, whatever input changes, keypad
\* presses, backspaces, clears and submits came before.
C25_AuthOnlyOnSuccess ==
    lastAuth.fired => (lastAuth.status = "success" /\ lastAuth.matches)

\* C26 as stated: after every FPS measurement, the performance level held by
\* App equals the level PerformanceMonitor classifies from its rolling average
\* FPS (>= 55 EXCELLENT, >= 40 GOOD, >= 25 POOR, otherwise CRITICAL).
C26_AppLevelIsMeasuredLevel ==
    fpsArray # <<>> => performanceLevel = LevelOf(AverageFps(fpsArray))

\* the ring after n recordings: write slot in 0..19, trailCount min(n, 20),
\* the newest min(n, 20) recordings in their slots
C27_RingHoldsNewest ==
    LET n == Len(recorded)
    IN  /\ trailIndex = n
        /\ TrailWriteIndex(trailIndex) \in 0 .. 19
        /\ trailCount = Min(n, 20)
        /\ trailCount <= 20
        /\ \A k \in 1 .. Min(n, 20) :
               LET slot == (n - k) % 20
               IN  /\ SlotPosition(trailPositions, slot) = recorded[n - k + 1].position
                   /\ trailTimes[slot + 1] = recorded[n - k + 1].time

\* a frame that finds the sphere at most minTrailDistance from the last
\* recorded position changes no slot and not trailCount
C27_ShortMoveChangesNothing ==
    (/\ elapsedTime' # elapsedTime
     /\ DistanceToSq(spherePosRef, lastRecordedPosition) <= 500 * 500)
        => (/\ trailPositions' = trailPositions
            /\ trailTimes' = trailTimes
            /\ trailCount' = trailCount)

\* C27: in PlaneInstancerWithColor's grass trail recorder, after n recordings
\* the write slot is in 0..19, trailCount is min(n, 20) and never above 20, and
\* the 20 slots hold the newest min(n, 20) recorded positions with their times
\* (a new recording overwrites the oldest slot); a frame whose sphere movement
\* since the last recording is at most minTrailDistance changes no slot and
\* not trailCount.
C27_TrailRing == []C27_RingHoldsNewest /\ [][C27_ShortMoveChangesNothing]_vars

\* more than 20 recordings were made, the oldest slot was overwritten, and the
\* last frame found the sphere too close to record
C27_Witness ==
    /\ Len(recorded) > 20
    /\ lastGrassFrame = "skipped"
    /\ SlotPosition(trailPositions, 0) # recorded[1].position
    /\ SlotPosition(trailPositions, 0) = recorded[21].position

\* C28 as stated: in MovingSphere, when the scene has no object named
\* 'Ground', the fallback traversal caches in baseMeshRef the first qualifying
\* mesh in traversal order (non-grass, non-instanced, non-ribbon, non-particle,
\* with a position attribute) and stops searching: later qualifying meshes
\* never replace it, and once cached baseMeshRef is never reassigned.
C28_FirstQualifyingCached ==
    cachedBy = "traversal" =>
        /\ Qualifies(sceneObjects[baseMeshRef])
        /\ \A i \in 1 .. (baseMeshRef - 1) : ~Qualifies(sceneObjects[i])

====
